---------------------------- MODULE Spec2Model ----------------------------
(***************************************************************************)
(* A model of the asus-ec-sensors hwmon driver (src/asus-ec-sensors.c):    *)
(* the sensor catalog, the register plan built at setup, the bank-switching*)
(* block read guarded by the AML mutex, the decoder, the one-second cache  *)
(* and the three hwmon callbacks.                                          *)
(*                                                                         *)
(* A u32 is kept as a pair <<hi, lo>> of 16-bit limbs and the long a       *)
(* callback hands back as a pair <<hi, lo>> whose hi limb is signed, so    *)
(* that 32-bit wrap-around is computed and not assumed away.               *)
(***************************************************************************)
EXTENDS Integers, Sequences, FiniteSets, TLC

(***************************************************************************)
(* Bounds of the model.                                                    *)
(***************************************************************************)
\* width of the jiffies counter (BITS_PER_LONG, scaled down)
JiffiesBits == 3
\* ticks per second (the kernel's HZ, scaled down)
HZ == 2
\* the hardware memory is one of NumPatterns byte assignments
NumPatterns == 2
\* the bank selector is found at 0 .. MaxEcBank when a pass begins
MaxEcBank == 1
\* at most MaxFaults hardware operations fail in a behaviour
MaxFaults == 1
\* channels 0 .. MaxChannel are queried
MaxChannel == 2

(***************************************************************************)
(* Program constants.                                                      *)
(***************************************************************************)
ASUS_EC_BANK_REGISTER == 255
ASUS_EC_MAX_BANK == 4
ENOENT == 2
EIO == 5
EBUSY == 16
ENODEV == 19

JiffiesMod == 2 ^ JiffiesBits
Limb == 2 ^ 16

(***************************************************************************)
(* The sensor catalog, known_ec_sensors[], indexed by info_index 0 .. 11.  *)
(***************************************************************************)
EC_SENSOR(sensor_label, sensor_type, size, bank, index) ==
    [label |-> sensor_label, type |-> sensor_type,
     size |-> size, bank |-> bank, index |-> index]

known_ec_sensors ==
    << EC_SENSOR("Chipset",     "temp", 1, 0, 58),
       EC_SENSOR("CPU",         "temp", 1, 0, 59),
       EC_SENSOR("Motherboard", "temp", 1, 0, 60),
       EC_SENSOR("T_Sensor",    "temp", 1, 0, 61),
       EC_SENSOR("VRM",         "temp", 1, 0, 62),
       EC_SENSOR("CPU_Opt",     "fan",  2, 0, 176),
       EC_SENSOR("VRM HS",      "fan",  2, 0, 178),
       EC_SENSOR("Chipset",     "fan",  2, 0, 180),
       EC_SENSOR("Water_Flow",  "fan",  2, 0, 188),
       EC_SENSOR("CPU",         "curr", 1, 0, 244),
       EC_SENSOR("Water_In",    "temp", 1, 1, 0),
       EC_SENSOR("Water_Out",   "temp", 1, 1, 1) >>

\* bit positions of enum known_ec_sensor (SENSOR_END is 1 << 11 plus one)
SensorBits == 0 .. (Len(known_ec_sensors) - 1)

\* known_ec_sensors[info_index], info_index counted from 0 as in C
SensorInfo(info_index) == known_ec_sensors[info_index + 1]

HwmonTypes == {"temp", "in", "curr", "fan"}

(***************************************************************************)
(* known_boards[].sensors, each mask as its set of bit positions.          *)
(***************************************************************************)
known_boards ==
    [ BOARD_PW_X570_A   |-> {0, 1, 2, 4, 7, 9},
      BOARD_R_C8H       |-> {0, 1, 2, 3, 4, 10, 11, 5, 7, 8, 9},
      BOARD_R_C8DH      |-> {0, 1, 2, 3, 4, 10, 11, 5, 8, 9},
      BOARD_R_C8F       |-> {0, 1, 2, 3, 4, 5, 7, 9},
      BOARD_R_C8I       |-> {0, 1, 2, 3, 4, 7, 9},
      BOARD_RS_B550_E_G |-> {0, 1, 2, 3, 4, 5, 9},
      BOARD_RS_B550_I_G |-> {0, 1, 2, 3, 4, 6, 9},
      BOARD_RS_X570_E_G |-> {0, 1, 2, 3, 4, 7, 9},
      BOARD_RS_X570_I_G |-> {3, 6, 7, 9} ]

(***************************************************************************)
(* Small helpers over sequences.                                           *)
(***************************************************************************)
Zeros(n) == [i \in 1 .. n |-> 0]

\* register_bank(): the bank encoded in a register address
register_bank(reg) == (reg % 65536) \div 256

(***************************************************************************)
(* bank_compare() and the sort() of ec->banks.                             *)
(***************************************************************************)
\* the value of a byte read through a const s8 pointer
AsS8(b) == IF b >= 128 THEN b - 256 ELSE b

\* a comparison with its operands exchanged
bank_compare_reversed(a, b) == AsS8(b) - AsS8(a)

bank_compare(a, b) == AsS8(a) - AsS8(b)

RECURSIVE InsertSorted(_, _)
InsertSorted(s, x) ==
    IF s = <<>> THEN <<x>>
    ELSE IF bank_compare(x, Head(s)) < 0 THEN <<x>> \o s
    ELSE <<Head(s)>> \o InsertSorted(Tail(s), x)

RECURSIVE sort(_)
sort(s) == IF s = <<>> THEN <<>> ELSE InsertSorted(sort(Tail(s)), Head(s))

(***************************************************************************)
(* setup_sensor_data(): the assigned sensors, nr_registers and banks of a  *)
(* board's sensor mask, scanning the bits in ascending order.              *)
(***************************************************************************)
BankFound(bs, bank) == \E j \in 1 .. Len(bs) : bs[j] = bank

RECURSIVE SetupScan(_, _, _)
SetupScan(i, board_mask, ec) ==
    IF i > Len(known_ec_sensors) - 1 THEN ec
    ELSE IF i \notin board_mask THEN SetupScan(i + 1, board_mask, ec)
    ELSE LET bank == SensorInfo(i).bank
             next == [ sensors |-> Append(ec.sensors,
                                     [info_index |-> i, cached_value |-> <<0, 0>>]),
                       nr_registers |-> ec.nr_registers + SensorInfo(i).size,
                       banks |-> IF BankFound(ec.banks, bank) THEN ec.banks
                                 ELSE Append(ec.banks, bank) ]
         IN  SetupScan(i + 1, board_mask, next)

setup_sensor_data(board_mask) ==
    LET ec == SetupScan(0, board_mask,
                        [sensors |-> <<>>, nr_registers |-> 0, banks |-> <<>>])
    IN  [ec EXCEPT !.banks = sort(ec.banks)]

(***************************************************************************)
(* fill_ec_registers(): size consecutive addresses per assigned sensor.    *)
(***************************************************************************)
\* registers that repeat the sensor's first address
SensorRegistersNoOffset(si) == [j \in 1 .. si.size |-> si.bank * 256 + si.index]

SensorRegisters(si) == [j \in 1 .. si.size |-> si.bank * 256 + si.index + (j - 1)]

RECURSIVE fill_ec_registers(_)
fill_ec_registers(ss) ==
    IF ss = <<>> THEN <<>>
    ELSE SensorRegisters(SensorInfo(Head(ss).info_index))
         \o fill_ec_registers(Tail(ss))


(***************************************************************************)
(* The embedded controller as the driver sees it through ec_read() and     *)
(* ec_write(): one byte per (bank, address), the bank chosen by the value  *)
(* last written to ASUS_EC_BANK_REGISTER.  The memory holds one of         *)
(* NumPatterns assignments in which banks and addresses differ.            *)
(***************************************************************************)
EcByte(pat, bank, addr) == (addr * (2 * pat + 3) + 97 * bank + 41 * pat + 1) % 256

\* the hardware operations a callback has issued, in order
TraceEntry(op, site, addr, ireg, value, sel, ok) ==
    [op |-> op, site |-> site, addr |-> addr, ireg |-> ireg, value |-> value,
     sel |-> sel, ok |-> ok]

\* hw = [sel, pat, buf, n, tr]: the bank selector, the memory pattern, the
\* driver's read_buffer, the number of hardware operations issued so far
\* and their trace; F is the set of operation numbers that fail.
ec_read(hw, F, addr, site, ireg) ==
    LET k  == hw.n + 1
        ok == k \notin F
        v  == IF addr = ASUS_EC_BANK_REGISTER THEN hw.sel
              ELSE EcByte(hw.pat, hw.sel, addr)
    IN  [ hw |-> [hw EXCEPT !.n = k,
                            !.tr = Append(@, TraceEntry("read", site, addr, ireg, v, hw.sel, ok))],
          status |-> IF ok THEN 0 ELSE -ENODEV,
          ok |-> ok,
          val |-> v ]

ec_write(hw, F, addr, value, site) ==
    LET k  == hw.n + 1
        ok == k \notin F
    IN  [ hw |-> [hw EXCEPT !.n = k,
                            !.sel = IF ok /\ addr = ASUS_EC_BANK_REGISTER THEN value ELSE @,
                            !.tr = Append(@, TraceEntry("write", site, addr, 0, value, hw.sel, ok))],
          status |-> IF ok THEN 0 ELSE -ENODEV ]

(***************************************************************************)
(* asus_ec_bank_switch(bank, old): has_old tells whether old is non-NULL;  *)
(* r is the outcome of the ec_read() of line 363, or status 0 without it.  *)
(***************************************************************************)
SwitchResult(w, old) == [hw |-> w.hw, status |-> w.status, old |-> old]

\* a switch that writes without comparing the bank it read
BankSwitchWriteAlways(r, bank, has_old, F, site) ==
    IF r.status # 0
    THEN [hw |-> r.hw, status |-> r.status, old |-> r.val]
    ELSE SwitchResult(ec_write(r.hw, F, ASUS_EC_BANK_REGISTER, bank, site), r.val)

\* lines 365-366
BankSwitchWrite(r, bank, has_old, F, site) ==
    IF r.status # 0 \/ (has_old /\ r.val = bank)
    THEN [hw |-> r.hw, status |-> r.status, old |-> r.val]
    ELSE SwitchResult(ec_write(r.hw, F, ASUS_EC_BANK_REGISTER, bank, site), r.val)

asus_ec_bank_switch(bank, has_old, hw, F, site) ==
    BankSwitchWrite(IF has_old
                    THEN ec_read(hw, F, ASUS_EC_BANK_REGISTER, "sel_read", 0)
                    ELSE [hw |-> hw, status |-> 0, ok |-> TRUE, val |-> 0],
                    bank, has_old, F, site)

(***************************************************************************)
(* asus_ec_block_read(): the inner register loop, the outer bank loop and  *)
(* the restore of the bank found at entry.                                 *)
(***************************************************************************)
\* a loop that reads a register under its own bank only
RegSkippedOtherBank(reg_bank, bank) == reg_bank # bank

\* a loop that never skips a register
RegSkippedNever(reg_bank, bank) == FALSE

\* line 401: the register belongs to a bank the loop has passed
RegSkipped(reg_bank, bank) == reg_bank < bank

\* line 404: the result of ec_read() is dropped; a failed read stores nothing
StoreRead(r, ireg) == IF r.ok THEN [r.hw EXCEPT !.buf[ireg] = r.val] ELSE r.hw

\* lines 399-405
RECURSIVE RegLoop(_, _, _, _, _)
RegLoop(ireg, bank, regs, hw, F) ==
    IF ireg > Len(regs) THEN hw
    ELSE IF RegSkipped(register_bank(regs[ireg]), bank)
         THEN RegLoop(ireg + 1, bank, regs, hw, F)
         ELSE RegLoop(ireg + 1, bank, regs,
                      StoreRead(ec_read(hw, F, regs[ireg] % 256, "data", ireg), ireg), F)

\* lines 391-406; a failed switch leaves the loop
RECURSIVE BankLoop(_, _, _, _, _, _)
RECURSIVE BankLoopSwitched(_, _, _, _, _)
BankLoopSwitched(sw, ibank, bnks, regs, F) ==
    IF sw.status # 0 THEN sw.hw
    ELSE BankLoop(ibank + 1, bnks[ibank], bnks, regs,
                  RegLoop(1, bnks[ibank], regs, sw.hw, F), F)

BankLoop(ibank, bank, bnks, regs, hw, F) ==
    IF ibank > Len(bnks) THEN hw
    ELSE IF bank # bnks[ibank]
         THEN BankLoopSwitched(
                  asus_ec_bank_switch(bnks[ibank], FALSE, hw, F, "loop_switch"),
                  ibank, bnks, regs, F)
         ELSE BankLoop(ibank + 1, bank, bnks, regs, RegLoop(1, bank, regs, hw, F), F)

\* a read that drops the status of the restore
RestoreStatusDropped(last) == [hw |-> last.hw, status |-> 0]

\* lines 408-409: the status of the restore is the status of the read
RestoreStatus(last) == [hw |-> last.hw, status |-> last.status]

\* a read that ends by selecting bank 0 instead of the bank found at entry
BlockReadFromRestoreZero(first, ec, F) ==
    IF first.status # 0 THEN [hw |-> first.hw, status |-> first.status]
    ELSE RestoreStatus(
             asus_ec_bank_switch(0, FALSE,
                                 BankLoop(1, 0, ec.banks, ec.registers, first.hw, F),
                                 F, "restore"))

\* lines 377-409, first being the outcome of the switch to bank 0
BlockReadFrom(first, ec, F) ==
    IF first.status # 0 THEN [hw |-> first.hw, status |-> first.status]
    ELSE RestoreStatus(
             asus_ec_bank_switch(first.old, FALSE,
                                 BankLoop(1, 0, ec.banks, ec.registers, first.hw, F),
                                 F, "restore"))

asus_ec_block_read(ec, hw, F) ==
    BlockReadFrom(asus_ec_bank_switch(0, TRUE, hw, F, "switch0"), ec, F)

(***************************************************************************)
(* get_sensor_value() and update_sensor_values(): big-endian decode of the *)
(* read buffer, size bytes per assigned sensor.                            *)
(***************************************************************************)
\* a decoder that takes two bytes in little-endian order
get_sensor_value_le16(si, data, off) ==
    CASE si.size = 1 -> <<0, data[off]>>
      [] si.size = 2 -> <<0, data[off + 1] * 256 + data[off]>>
      [] si.size = 4 -> <<data[off] * 256 + data[off + 1],
                          data[off + 2] * 256 + data[off + 3]>>
      [] OTHER       -> <<0, 0>>

get_sensor_value(si, data, off) ==
    CASE si.size = 1 -> <<0, data[off]>>
      [] si.size = 2 -> <<0, data[off] * 256 + data[off + 1]>>
      [] si.size = 4 -> <<data[off] * 256 + data[off + 1],
                          data[off + 2] * 256 + data[off + 3]>>
      [] OTHER       -> <<0, 0>>

RECURSIVE DecodeFrom(_, _, _, _)
DecodeFrom(i, off, ss, data) ==
    IF i > Len(ss) THEN ss
    ELSE LET si == SensorInfo(ss[i].info_index)
         IN  DecodeFrom(i + 1, off + si.size,
                        [ss EXCEPT ![i].cached_value = get_sensor_value(si, data, off)],
                        data)

update_sensor_values(ss, data) == DecodeFrom(1, 1, ss, data)

\* the loop of lines 431-435 over sensors whose infos are given as such:
\* the values it assigns, in order
RECURSIVE DecodeValues(_, _, _)
DecodeValues(infos, data, off) ==
    IF infos = <<>> THEN <<>>
    ELSE <<get_sensor_value(Head(infos), data, off)>>
         \o DecodeValues(Tail(infos), data, off + Head(infos).size)

(***************************************************************************)
(* update_ec_sensors(): acquire the AML mutex, read, decode on status 0,   *)
(* release.                                                                *)
(***************************************************************************)
acpi_mutex_op(hw, F, op) ==
    [ hw |-> [hw EXCEPT !.n = @ + 1,
                        !.tr = Append(@, TraceEntry(op, op, 0, 0, 0, hw.sel,
                                                    (hw.n + 1) \notin F))],
      ok |-> (hw.n + 1) \notin F ]

\* line 455: the buffer is decoded when the block read returned 0
DecodeWanted(status) == status = 0

\* an update that releases the mutex only after a block read that returned 0
UpdateAfterReadKeepsMutex(rd, ec, F) ==
    [ sensors |-> IF DecodeWanted(rd.status)
                  THEN update_sensor_values(ec.sensors, rd.hw.buf)
                  ELSE ec.sensors,
      hw |-> IF rd.status = 0 THEN acpi_mutex_op(rd.hw, F, "release").hw ELSE rd.hw,
      status |-> rd.status ]

\* lines 455-462: a failed release is logged and nothing else
UpdateAfterRead(rd, ec, F) ==
    [ sensors |-> IF DecodeWanted(rd.status)
                  THEN update_sensor_values(ec.sensors, rd.hw.buf)
                  ELSE ec.sensors,
      hw |-> acpi_mutex_op(rd.hw, F, "release").hw,
      status |-> rd.status ]

\* an update that goes on without the mutex
UpdateAfterAcquireUnchecked(acq, ec, F) ==
    UpdateAfterRead(asus_ec_block_read(ec, acq.hw, F), ec, F)

\* lines 447-453
UpdateAfterAcquire(acq, ec, F) ==
    IF ~acq.ok THEN [sensors |-> ec.sensors, hw |-> acq.hw, status |-> -EBUSY]
    ELSE UpdateAfterRead(asus_ec_block_read(ec, acq.hw, F), ec, F)

update_ec_sensors(ec, hw, F) ==
    UpdateAfterAcquire(acpi_mutex_op(hw, F, "acquire"), ec, F)

(***************************************************************************)
(* scale_sensor_value(u32 value, int data_type): value * 1000 is a 32-bit  *)
(* unsigned product, returned as int and widened to long.                  *)
(***************************************************************************)
\* a 32-bit pattern <<hi, lo>> read as a signed int
AsInt(u) == IF u[1] >= Limb \div 2 THEN <<u[1] - Limb, u[2]>> ELSE u

MulU32(u, k) ==
    LET lo == u[2] * k
    IN  <<(u[1] * k + lo \div Limb) % Limb, lo % Limb>>

scale_sensor_value_none(value, data_type) == AsInt(value)

scale_sensor_value(value, data_type) ==
    IF data_type \in {"curr", "temp", "in"}
    THEN AsInt(MulU32(value, 1000))
    ELSE AsInt(value)

(***************************************************************************)
(* The jiffies clock and time_after().                                     *)
(***************************************************************************)
\* unsigned long arithmetic
ULong(x) == x % JiffiesMod

\* time_after_eq(a, b): (long)(a - b) >= 0
time_after_eq(a, b) == ULong(a - b + JiffiesMod) < JiffiesMod \div 2

\* time_after(a, b): (long)(b - a) < 0
time_after(a, b) == ULong(b - a + JiffiesMod) >= JiffiesMod \div 2

(***************************************************************************)
(* get_sensor_info() and find_ec_sensor_index().                           *)
(***************************************************************************)
get_sensor_info(ss, index) == SensorInfo(ss[index + 1].info_index)

RECURSIVE FindFrom(_, _, _, _)
FindFrom(i, ss, type, channel) ==
    IF i >= Len(ss) THEN -ENOENT
    ELSE IF get_sensor_info(ss, i).type = type
         THEN IF channel = 0 THEN i ELSE FindFrom(i + 1, ss, type, channel - 1)
         ELSE FindFrom(i + 1, ss, type, channel)

\* a lookup that takes the first sensor of the type for every channel
find_first_of_type(ss, type, channel) == FindFrom(0, ss, type, 0)

find_ec_sensor_index(ss, type, channel) == FindFrom(0, ss, type, channel)


(***************************************************************************)
(* get_cached_value_or_update(): st = [sensors, registers, banks,          *)
(* last_updated], now is jiffies.                                          *)
(***************************************************************************)
\* a refresh that stamps last_updated whatever update_ec_sensors() returned
CachedAfterUpdateStamped(u, sensor_index, st, now) ==
    IF u.status # 0
    THEN [ret |-> -EIO, value |-> <<>>, sensors |-> u.sensors,
          last_updated |-> now, hw |-> u.hw]
    ELSE [ret |-> 0, value |-> u.sensors[sensor_index + 1].cached_value,
          sensors |-> u.sensors, last_updated |-> now, hw |-> u.hw]

\* lines 482-491, u being what update_ec_sensors() left
CachedAfterUpdate(u, sensor_index, st, now) ==
    IF u.status # 0
    THEN [ret |-> -EIO, value |-> <<>>, sensors |-> u.sensors,
          last_updated |-> st.last_updated, hw |-> u.hw]
    ELSE [ret |-> 0, value |-> u.sensors[sensor_index + 1].cached_value,
          sensors |-> u.sensors, last_updated |-> now, hw |-> u.hw]

get_cached_value_or_update(sensor_index, st, now, hw, F) ==
    IF time_after(now, ULong(st.last_updated + HZ))
    THEN CachedAfterUpdate(update_ec_sensors(st, hw, F), sensor_index, st, now)
    ELSE [ret |-> 0, value |-> st.sensors[sensor_index + 1].cached_value,
          sensors |-> st.sensors, last_updated |-> st.last_updated, hw |-> hw]

(***************************************************************************)
(* The state of one driver instance, of the hardware and of the last       *)
(* callback's outcome.                                                     *)
(***************************************************************************)
VARIABLES
    board_sensors,  \* known_boards[board].sensors, as a set of bit positions
    sensors,        \* ec->sensors: <<[info_index, cached_value]>>
    registers,      \* ec->registers
    banks,          \* ec->banks[0 .. nr_banks-1]
    read_buffer,    \* ec->read_buffer
    last_updated,   \* ec->last_updated
    jiffies,        \* the kernel's tick counter
    ecBank,         \* the EC's bank selector
    ecPat,          \* which byte assignment the EC memory holds
    faults,         \* hardware operations that have failed so far
    call,           \* the last callback: [fn, type, channel, sidx, age, raw]
    ret,            \* its return value
    val,            \* *val (or the scaled value), <<>> while not written
    str,            \* *str, "" while not written
    trace,          \* the hardware operations it issued
    pc,             \* where each concurrent caller of asus_ec_hwmon_read() is
    mutex           \* the caller that holds the AML mutex, 0 for none

vars == << board_sensors, sensors, registers, banks, read_buffer, last_updated,
           jiffies, ecBank, ecPat, faults, call, ret, val, str, trace, pc, mutex >>

planVars == << board_sensors, registers, banks >>
outVars  == << call, ret, val, str, trace >>
threadVars == << pc, mutex >>

\* fn names the callback, sidx is what find_ec_sensor_index() returned, age is
\* jiffies - last_updated at entry, raw the u32 taken from the cache
NoCall == [fn |-> "none", type |-> "", channel |-> 0, sidx |-> 0, age |-> 0,
           raw |-> <<>>]

\* S_IRUGO, octal 0444
S_IRUGO == 292

(***************************************************************************)
(* Setup: configure_sensor_setup() on memory that devm_kzalloc() and       *)
(* devm_kcalloc() zeroed.                                                  *)
(***************************************************************************)
Configured(mask) ==
    LET ec == setup_sensor_data(mask)
    IN  /\ board_sensors = mask
        /\ sensors = ec.sensors
        /\ banks = ec.banks
        /\ registers = fill_ec_registers(ec.sensors)
        /\ read_buffer = Zeros(ec.nr_registers)
        /\ last_updated = 0

\* no callback is running and the last one's outcome has been consumed
Idle == call.fn = "none"

InitOut ==
    /\ call = NoCall
    /\ ret = 0
    /\ val = <<>>
    /\ str = ""
    /\ trace = <<>>

\* the callers that may run asus_ec_hwmon_read() at the same time
Threads == {1, 2}

\* a caller outside the callback
Outside == [at |-> "outside", sidx |-> 0, status |-> 0]

\* no caller is inside the callback and the AML mutex is free
InitThreads ==
    /\ pc = [t \in Threads |-> Outside]
    /\ mutex = 0

\* the boards of the main specification: one whose sensors are all in bank 0
\* and one whose sensors span both banks
MainProfiles == { known_boards.BOARD_RS_X570_I_G, known_boards.BOARD_R_C8DH }

Init ==
    /\ \E mask \in MainProfiles : Configured(mask)
    /\ jiffies \in 0 .. JiffiesMod - 1
    /\ ecBank \in 0 .. MaxEcBank
    /\ ecPat \in 0 .. NumPatterns - 1
    /\ faults = 0
    /\ InitOut
    /\ InitThreads

(***************************************************************************)
(* The sets the callbacks' inputs are drawn from.                          *)
(***************************************************************************)
\* the subsets of S with at most k elements
RECURSIVE SubsetsUpTo(_, _)
SubsetsUpTo(k, S) ==
    IF k = 0 THEN {{}}
    ELSE LET T == SubsetsUpTo(k - 1, S)
         IN  T \cup {t \cup {x} : t \in T, x \in S}

\* no callback issues more hardware operations than this
MaxOps == 5 + Len(banks) * (1 + Len(registers))

\* the operations that may still fail, MaxFaults in a behaviour at most
FaultSets == SubsetsUpTo(MaxFaults - faults, 1 .. MaxOps)

Channels == 0 .. MaxChannel

Failed(tr) == {i \in 1 .. Len(tr) : ~tr[i].ok}

(***************************************************************************)
(* asus_ec_hwmon_read()                                                    *)
(***************************************************************************)
\* lines 510-516, r being what get_cached_value_or_update() left
ReadOutcome(r, this, data_type) ==
    /\ call' = [this EXCEPT !.raw = r.value]
    /\ ret' = r.ret
    /\ val' = IF r.ret = 0 THEN scale_sensor_value(r.value, data_type) ELSE <<>>
    /\ trace' = r.hw.tr
    /\ sensors' = r.sensors
    /\ read_buffer' = r.hw.buf
    /\ last_updated' = r.last_updated
    /\ ecBank' = r.hw.sel
    /\ faults' = faults + Cardinality(Failed(r.hw.tr))

\* lines 505-508 and the call of line 510, sidx being the sensor found
ReadSensor(sidx, this, F) ==
    IF sidx < 0
    THEN /\ call' = [this EXCEPT !.sidx = sidx]
         /\ ret' = sidx
         /\ val' = <<>>
         /\ trace' = <<>>
         /\ UNCHANGED << sensors, read_buffer, last_updated, ecBank, faults >>
    ELSE ReadOutcome(
             get_cached_value_or_update(
                 sidx,
                 [sensors |-> sensors, registers |-> registers,
                  banks |-> banks, last_updated |-> last_updated],
                 jiffies,
                 [sel |-> ecBank, pat |-> ecPat, buf |-> read_buffer,
                  n |-> 0, tr |-> <<>>],
                 F),
             [this EXCEPT !.sidx = sidx],
             get_sensor_info(sensors, sidx).type)

asus_ec_hwmon_read(type, channel, F) ==
    /\ ReadSensor(find_ec_sensor_index(sensors, type, channel),
                  [fn |-> "read", type |-> type, channel |-> channel, sidx |-> 0,
                   age |-> ULong(jiffies - last_updated + JiffiesMod), raw |-> <<>>],
                  F)
    /\ str' = ""
    /\ UNCHANGED << planVars, threadVars, jiffies, ecPat >>

\* a fault is an input only of a callback that reaches the hardware
HwmonRead ==
    /\ Idle
    /\ \E type \in HwmonTypes, channel \in Channels :
         \E F \in IF /\ find_ec_sensor_index(sensors, type, channel) >= 0
                     /\ time_after(jiffies, ULong(last_updated + HZ))
                  THEN FaultSets ELSE {{}} :
            asus_ec_hwmon_read(type, channel, F)

\* the caller has consumed the callback's outcome
Return ==
    /\ ~Idle
    /\ call' = NoCall
    /\ ret' = 0
    /\ val' = <<>>
    /\ str' = ""
    /\ trace' = <<>>
    /\ UNCHANGED << planVars, threadVars, sensors, read_buffer, last_updated, jiffies,
                    ecBank, ecPat, faults >>

(***************************************************************************)
(* asus_ec_hwmon_read_string() and asus_ec_hwmon_is_visible()              *)
(***************************************************************************)
\* what a read of state->sensors[index] outside the array may deliver: the
\* label of some catalog entry, or no valid string at all
StrayLabels == {known_ec_sensors[1].label, "<invalid>"}

asus_ec_hwmon_read_string(type, channel) ==
    LET sensor_index == find_ec_sensor_index(sensors, type, channel)
    IN  /\ call' = [fn |-> "read_string", type |-> type, channel |-> channel,
                    sidx |-> sensor_index, age |-> 0, raw |-> <<>>]
        /\ IF sensor_index \in 0 .. Len(sensors) - 1
           THEN str' = get_sensor_info(sensors, sensor_index).label
           ELSE str' \in StrayLabels
        /\ ret' = 0
        /\ val' = <<>>
        /\ trace' = <<>>
        /\ UNCHANGED << planVars, threadVars, sensors, read_buffer, last_updated, jiffies,
                        ecBank, ecPat, faults >>

HwmonReadString ==
    /\ Idle
    /\ \E type \in HwmonTypes, channel \in Channels :
         asus_ec_hwmon_read_string(type, channel)

asus_ec_hwmon_is_visible(type, channel) ==
    /\ call' = [fn |-> "is_visible", type |-> type, channel |-> channel,
                sidx |-> find_ec_sensor_index(sensors, type, channel),
                age |-> 0, raw |-> <<>>]
    /\ ret' = IF find_ec_sensor_index(sensors, type, channel) >= 0
              THEN S_IRUGO ELSE 0
    /\ val' = <<>>
    /\ str' = ""
    /\ trace' = <<>>
    /\ UNCHANGED << planVars, threadVars, sensors, read_buffer, last_updated, jiffies,
                    ecBank, ecPat, faults >>

HwmonIsVisible ==
    /\ Idle
    /\ \E type \in HwmonTypes, channel \in Channels :
         asus_ec_hwmon_is_visible(type, channel)

(***************************************************************************)
(* The environment: time passes, the EC refreshes its readings, firmware   *)
(* leaves the bank selector somewhere else.  None of them happens inside a *)
(* callback.                                                               *)
(***************************************************************************)
Tick ==
    /\ Idle
    /\ jiffies' = ULong(jiffies + 1)
    /\ UNCHANGED << planVars, threadVars, sensors, read_buffer, last_updated, ecBank, ecPat,
                    faults, outVars >>

EcUpdate ==
    /\ Idle
    /\ \E p \in 0 .. NumPatterns - 1 : p # ecPat /\ ecPat' = p
    /\ UNCHANGED << planVars, threadVars, sensors, read_buffer, last_updated, jiffies, ecBank,
                    faults, outVars >>

FirmwareBank ==
    /\ Idle
    /\ \E b \in 0 .. MaxEcBank : b # ecBank /\ ecBank' = b
    /\ UNCHANGED << planVars, threadVars, sensors, read_buffer, last_updated, jiffies, ecPat,
                    faults, outVars >>

Next ==
    \/ HwmonRead
    \/ HwmonReadString
    \/ HwmonIsVisible
    \/ Return
    \/ Tick
    \/ EcUpdate
    \/ FirmwareBank

Spec == Init /\ [][Next]_vars


(***************************************************************************)
(* SpecProfiles: the three callbacks on every board profile of at most     *)
(* MaxProfileSensors catalog sensors and on every shipped board, with      *)
(* hardware that does not fail and a cache that is stale at the start.     *)
(***************************************************************************)
MaxProfileSensors == 3

Profiles ==
    SubsetsUpTo(MaxProfileSensors, SensorBits)
        \cup {known_boards[b] : b \in DOMAIN known_boards}

InitProfiles ==
    /\ \E mask \in Profiles : Configured(mask)
    /\ jiffies = HZ + 1
    /\ ecBank \in 0 .. MaxEcBank
    /\ ecPat \in 0 .. NumPatterns - 1
    /\ faults = MaxFaults
    /\ InitOut
    /\ InitThreads

NextProfiles == HwmonRead \/ HwmonReadString \/ HwmonIsVisible \/ Return

SpecProfiles == InitProfiles /\ [][NextProfiles]_vars

(***************************************************************************)
(* SpecScale: get_sensor_value() and scale_sensor_value() on four raw      *)
(* bytes, for each width and each sensor type.                             *)
(***************************************************************************)
ByteSamples == {0, 1, 65, 127, 128, 255}

Widths == {1, 2, 4}

InitScale ==
    /\ board_sensors = {}
    /\ sensors = <<>>
    /\ registers = <<>>
    /\ banks = <<>>
    /\ last_updated = 0
    /\ read_buffer \in [1 .. 4 -> ByteSamples]
    /\ jiffies = 0
    /\ ecBank = 0
    /\ ecPat = 0
    /\ faults = 0
    /\ InitOut
    /\ InitThreads

DecodeAndScale ==
    /\ Idle
    /\ \E size \in Widths, type \in HwmonTypes :
         LET raw == get_sensor_value([size |-> size], read_buffer, 1)
         IN  /\ call' = [fn |-> "scale", type |-> type, channel |-> size,
                         sidx |-> 0, age |-> 0, raw |-> raw]
             /\ val' = scale_sensor_value(raw, type)
    /\ ret' = 0
    /\ str' = ""
    /\ trace' = <<>>
    /\ UNCHANGED << planVars, threadVars, sensors, read_buffer, last_updated, jiffies,
                    ecBank, ecPat, faults >>

NextScale == DecodeAndScale \/ Return

SpecScale == InitScale /\ [][NextScale]_vars

(***************************************************************************)
(* SpecPlan: setup_sensor_data() and fill_ec_registers() on every subset   *)
(* of the catalog, followed by the visibility queries the hwmon core makes *)
(* when the device is registered.                                          *)
(***************************************************************************)
InitPlan ==
    /\ \E mask \in SUBSET SensorBits : Configured(mask)
    /\ jiffies = 0
    /\ ecBank = 0
    /\ ecPat = 0
    /\ faults = 0
    /\ InitOut
    /\ InitThreads

NextPlan == HwmonIsVisible \/ Return

SpecPlan == InitPlan /\ [][NextPlan]_vars

(***************************************************************************)
(* SpecThreads: asus_ec_hwmon_read() run by the callers of Threads at the  *)
(* same time, one step per access to the shared state or to the AML mutex. *)
(* The hardware does not fail; a caller that finds the mutex taken waits   *)
(* or gives up after ACPI_DELAY_MSEC_LOCK.                                 *)
(***************************************************************************)
At(t, where) == pc[t].at = where

Goto(t, where) == pc' = [pc EXCEPT ![t].at = where]

\* lines 504-510 and 481: the sensor is found and last_updated is compared
Enter(t) ==
    /\ At(t, "outside")
    /\ \E type \in HwmonTypes :
         /\ find_ec_sensor_index(sensors, type, 0) >= 0
         /\ pc' = [pc EXCEPT ![t] =
                     [at |-> IF time_after(jiffies, ULong(last_updated + HZ))
                             THEN "acquire" ELSE "copy",
                      sidx |-> find_ec_sensor_index(sensors, type, 0),
                      status |-> 0]]
    /\ UNCHANGED << planVars, sensors, read_buffer, last_updated, jiffies,
                    ecBank, ecPat, faults, outVars, mutex >>

\* line 447, the mutex being free
AcquireMutex(t) ==
    /\ At(t, "acquire")
    /\ mutex = 0
    /\ mutex' = t
    /\ Goto(t, "read")
    /\ UNCHANGED << planVars, sensors, read_buffer, last_updated, jiffies,
                    ecBank, ecPat, faults, outVars >>

\* lines 447-451 and 482-485: the wait timed out, the query returns -EIO
AcquireTimeout(t) ==
    /\ At(t, "acquire")
    /\ mutex \notin {0, t}
    /\ pc' = [pc EXCEPT ![t] = Outside]
    /\ UNCHANGED << planVars, sensors, read_buffer, last_updated, jiffies,
                    ecBank, ecPat, faults, outVars, mutex >>

\* line 453
BlockRead(t) ==
    /\ At(t, "read")
    /\ LET rd == asus_ec_block_read(
                     [registers |-> registers, banks |-> banks],
                     [sel |-> ecBank, pat |-> ecPat, buf |-> read_buffer,
                      n |-> 0, tr |-> <<>>],
                     {})
       IN  /\ read_buffer' = rd.hw.buf
           /\ ecBank' = rd.hw.sel
           /\ pc' = [pc EXCEPT ![t].at = "decode", ![t].status = rd.status]
    /\ UNCHANGED << planVars, sensors, last_updated, jiffies, ecPat, faults,
                    outVars, mutex >>

\* lines 455-457
Decode(t) ==
    /\ At(t, "decode")
    /\ sensors' = IF DecodeWanted(pc[t].status)
                  THEN update_sensor_values(sensors, read_buffer)
                  ELSE sensors
    /\ Goto(t, "release")
    /\ UNCHANGED << planVars, read_buffer, last_updated, jiffies, ecBank, ecPat,
                    faults, outVars, mutex >>

\* lines 458-462 and 482-485
ReleaseMutex(t) ==
    /\ At(t, "release")
    /\ mutex' = 0
    /\ pc' = IF pc[t].status # 0 THEN [pc EXCEPT ![t] = Outside]
             ELSE [pc EXCEPT ![t].at = "stamp"]
    /\ UNCHANGED << planVars, sensors, read_buffer, last_updated, jiffies,
                    ecBank, ecPat, faults, outVars >>

\* line 487
Stamp(t) ==
    /\ At(t, "stamp")
    /\ last_updated' = jiffies
    /\ Goto(t, "copy")
    /\ UNCHANGED << planVars, sensors, read_buffer, jiffies, ecBank, ecPat,
                    faults, outVars, mutex >>

\* lines 490-491 and 511-516: the cached value is copied out and returned
CopyValue(t) ==
    /\ At(t, "copy")
    /\ pc' = [pc EXCEPT ![t] = Outside]
    /\ UNCHANGED << planVars, sensors, read_buffer, last_updated, jiffies,
                    ecBank, ecPat, faults, outVars, mutex >>

InitConcurrent ==
    /\ \E mask \in MainProfiles : Configured(mask)
    /\ jiffies \in 0 .. JiffiesMod - 1
    /\ ecBank = 0
    /\ ecPat \in 0 .. NumPatterns - 1
    /\ faults = MaxFaults
    /\ InitOut
    /\ InitThreads

NextThreads ==
    \/ \E t \in Threads : Enter(t)
    \/ \E t \in Threads : AcquireMutex(t)
    \/ \E t \in Threads : AcquireTimeout(t)
    \/ \E t \in Threads : BlockRead(t)
    \/ \E t \in Threads : Decode(t)
    \/ \E t \in Threads : ReleaseMutex(t)
    \/ \E t \in Threads : Stamp(t)
    \/ \E t \in Threads : CopyValue(t)
    \/ Tick
    \/ EcUpdate

SpecThreads == InitConcurrent /\ [][NextThreads]_vars

(***************************************************************************)
(* SpecLayout: update_sensor_values() on buffers that hold chosen values   *)
(* in big-endian order, for sensors of 1, 2, 4 and 3 bytes.                *)
(***************************************************************************)
MaxLayoutSensors == 2

LimbSamples == {0, 1, 255, 256, 32768, 65535}

\* a sensor's size with a value that fits it; no value fits 3 bytes' decoding
LayoutItems ==
    {[size |-> 1, value |-> <<0, lo>>] : lo \in {x \in LimbSamples : x < 256}}
    \cup {[size |-> 2, value |-> <<0, lo>>] : lo \in LimbSamples}
    \cup {[size |-> 4, value |-> <<hi, lo>>] : hi \in LimbSamples, lo \in LimbSamples}
    \cup {[size |-> 3, value |-> <<0, lo>>] : lo \in {1, 65535}}

\* the bytes of a value, most significant first, in size bytes
BigEndianBytes(item) ==
    LET hi == item.value[1]
        lo == item.value[2]
    IN  CASE item.size = 1 -> <<lo % 256>>
          [] item.size = 2 -> <<lo \div 256, lo % 256>>
          [] item.size = 3 -> <<hi % 256, lo \div 256, lo % 256>>
          [] item.size = 4 -> <<hi \div 256, hi % 256, lo \div 256, lo % 256>>

RECURSIVE LayoutBuffer(_)
LayoutBuffer(items) ==
    IF items = <<>> THEN <<>>
    ELSE BigEndianBytes(Head(items)) \o LayoutBuffer(Tail(items))

InitLayout ==
    /\ board_sensors = {}
    /\ sensors = <<>>
    /\ registers = <<>>
    /\ banks = <<>>
    /\ last_updated = 0
    /\ read_buffer = <<>>
    /\ jiffies = 0
    /\ ecBank = 0
    /\ ecPat = 0
    /\ faults = 0
    /\ InitOut
    /\ InitThreads

LayoutAndDecode ==
    /\ Idle
    /\ \E n \in 1 .. MaxLayoutSensors :
         \E items \in [1 .. n -> LayoutItems] :
             /\ call' = [fn |-> "decode", type |-> "", channel |-> 0, sidx |-> 0,
                         age |-> 0, raw |-> items, buf |-> LayoutBuffer(items)]
             /\ val' = DecodeValues([i \in 1 .. n |-> [size |-> items[i].size]],
                                    LayoutBuffer(items), 1)
    /\ ret' = 0
    /\ str' = ""
    /\ trace' = <<>>
    /\ UNCHANGED << planVars, threadVars, sensors, read_buffer, last_updated,
                    jiffies, ecBank, ecPat, faults >>

NextLayout == LayoutAndDecode \/ Return

SpecLayout == InitLayout /\ [][NextLayout]_vars

(***************************************************************************)
(* SpecSetup: configure_sensor_setup() from the zeroed state, on a machine *)
(* whose DMI data matches an entry of asus_ec_dmi_table or none, followed  *)
(* by the visibility queries made when the hwmon device is registered.     *)
(***************************************************************************)
BOARD_MAX == 9

\* enum board, in order
BoardNames ==
    << "BOARD_PW_X570_A", "BOARD_R_C8H", "BOARD_R_C8DH", "BOARD_R_C8F",
       "BOARD_R_C8I", "BOARD_RS_B550_E_G", "BOARD_RS_B550_I_G",
       "BOARD_RS_X570_E_G", "BOARD_RS_X570_I_G" >>

\* what dmi_first_match() finds: the position of an entry, or -1 for NULL
DmiMatches == (0 .. BOARD_MAX - 1) \cup {-1}

\* a value stored into a board_t
AsU8(x) == x % 256

supported_board_index(dmi) == IF dmi < 0 THEN -ENODEV ELSE dmi

\* known_boards[board].sensors; outside the table the read delivers whatever
\* follows it in memory, here any mask of Profiles
BoardSensorsRead(board) ==
    IF board \in 0 .. BOARD_MAX - 1
    THEN {known_boards[BoardNames[board + 1]]}
    ELSE Profiles

\* asus_ec_init() has zeroed the state and is about to configure it
InitSetup ==
    /\ board_sensors = {}
    /\ sensors = <<>>
    /\ registers = <<>>
    /\ banks = <<>>
    /\ read_buffer = <<>>
    /\ last_updated = 0
    /\ jiffies \in 0 .. JiffiesMod - 1
    /\ ecBank \in 0 .. MaxEcBank
    /\ ecPat \in 0 .. NumPatterns - 1
    /\ faults = MaxFaults
    /\ call = [NoCall EXCEPT !.fn = "init"]
    /\ ret = 0
    /\ val = <<>>
    /\ str = ""
    /\ trace = <<>>
    /\ InitThreads

\* lines 602-620; board is the board_t that line 602 stored
SetupBoard(dmi, board) ==
    IF board < 0
    THEN /\ call' = [fn |-> "setup", dmi |-> dmi, board |-> board,
                     indexed |-> FALSE]
         /\ ret' = -ENODEV
         /\ UNCHANGED << planVars, sensors, read_buffer >>
    ELSE /\ call' = [fn |-> "setup", dmi |-> dmi, board |-> board,
                     indexed |-> TRUE]
         /\ ret' = 0
         /\ \E mask \in BoardSensorsRead(board) :
              /\ board_sensors' = mask
              /\ sensors' = setup_sensor_data(mask).sensors
              /\ banks' = setup_sensor_data(mask).banks
              /\ registers' = fill_ec_registers(setup_sensor_data(mask).sensors)
              /\ read_buffer' = Zeros(setup_sensor_data(mask).nr_registers)

configure_sensor_setup(dmi) ==
    /\ SetupBoard(dmi, AsU8(supported_board_index(dmi)))
    /\ val' = <<>>
    /\ str' = ""
    /\ trace' = <<>>
    /\ UNCHANGED << threadVars, last_updated, jiffies, ecBank, ecPat, faults >>

ConfigureSensorSetup ==
    /\ call.fn = "init"
    /\ \E dmi \in DmiMatches : configure_sensor_setup(dmi)

NextSetup == ConfigureSensorSetup \/ HwmonIsVisible \/ Return

SpecSetup == InitSetup /\ [][NextSetup]_vars

(***************************************************************************)
(* SpecBanks: bank_compare() and the sort() of line 319 on every pair of   *)
(* values a u8 bank can hold.                                              *)
(***************************************************************************)
BankValues == 0 .. 255

CompareAndSort ==
    /\ Idle
    /\ \E a \in BankValues, b \in BankValues :
         /\ call' = [fn |-> "bank_compare", a |-> a, b |-> b,
                     sorted |-> sort(<<a, b>>)]
         /\ ret' = bank_compare(a, b)
    /\ val' = <<>>
    /\ str' = ""
    /\ trace' = <<>>
    /\ UNCHANGED << planVars, threadVars, sensors, read_buffer, last_updated,
                    jiffies, ecBank, ecPat, faults >>

NextBanks == CompareAndSort \/ Return

SpecBanks == InitLayout /\ [][NextBanks]_vars

(***************************************************************************)
(* Properties.  A callback's outcome is read from call, ret, val, str and  *)
(* trace; the state before it from the unprimed variables of its step.     *)
(***************************************************************************)
\* the Bulk Reader passes a callback started: each begins by taking the mutex
Passes(tr) == Cardinality({i \in 1 .. Len(tr) : tr[i].site = "acquire"})

\* the callback was a value query that found its sensor
ResolvedRead == call.fn = "read" /\ call.sidx >= 0

FailedAt(tr, sites) == {i \in Failed(tr) : tr[i].site \in sites}

\* what the next value query for the same sensor would issue were it made in
\* the state (ss, lu, sel, buf) with working hardware and no time elapsed
NextQueryTrace(sidx, ss, lu, now, sel, buf) ==
    get_cached_value_or_update(
        sidx,
        [sensors |-> ss, registers |-> registers, banks |-> banks,
         last_updated |-> lu],
        now,
        [sel |-> sel, pat |-> ecPat, buf |-> buf, n |-> 0, tr |-> <<>>],
        {}).hw.tr

(***************************************************************************)
(* C1, as written: a value query whose age now - last_updated is below HZ  *)
(* starts no pass, and one whose age is HZ or more (exactly HZ included)   *)
(* starts exactly one pass.  Ages beyond half the range of the counter     *)
(* are left out of this statement.                                         *)
(***************************************************************************)
C1_AsWritten ==
    (ResolvedRead /\ call.age <= HZ + JiffiesMod \div 2)
        => Passes(trace) = IF call.age < HZ THEN 0 ELSE 1

(***************************************************************************)
(* C1: a value query that found its sensor at age                          *)
(* (jiffies - last_updated) mod 2^JiffiesBits starts exactly one pass when *)
(* HZ < age <= HZ + 2^(JiffiesBits-1); at every other age, exactly HZ      *)
(* included, it starts no pass, succeeds and returns the cached value.     *)
(***************************************************************************)
C1_StalenessBoundary ==
    ResolvedRead =>
        IF call.age > HZ /\ call.age <= HZ + JiffiesMod \div 2
        THEN Passes(trace) = 1
        ELSE /\ trace = <<>>
             /\ ret = 0
             /\ call.raw = sensors[call.sidx + 1].cached_value

\* a value a pass cached earlier is served at the age of exactly HZ
C1_Witness ==
    /\ ResolvedRead
    /\ call.age = HZ
    /\ trace = <<>>
    /\ ret = 0
    /\ call.raw # <<0, 0>>

(***************************************************************************)
(* C2, as written: a value query during whose pass a bank switch of the    *)
(* per-bank loop failed returns an error.                                  *)
(***************************************************************************)
C2_LoopSwitchFailureReported ==
    (call.fn = "read" /\ FailedAt(trace, {"loop_switch"}) # {}) => ret # 0

(***************************************************************************)
(* C3: a value query whose pass reports failure returns -EIO and writes    *)
(* no value, leaves every cached_value and last_updated as they were, and  *)
(* the next query for the sensor, made with no time elapsed, starts a pass.*)
(***************************************************************************)
C3_FailedPassStep ==
    (call'.fn = "read" /\ ret' = -EIO) =>
        /\ val' = <<>>
        /\ sensors' = sensors
        /\ last_updated' = last_updated
        /\ Passes(NextQueryTrace(call'.sidx, sensors', last_updated', jiffies',
                                 ecBank', read_buffer')) = 1

C3_FailedPassLeavesCache == [][C3_FailedPassStep]_vars

\* a failed pass over a cache that holds values other than the bytes just read
C3_Witness ==
    /\ call.fn = "read"
    /\ ret = -EIO
    /\ \E i \in 1 .. Len(sensors) : sensors[i].cached_value # <<0, 0>>
    /\ update_sensor_values(sensors, read_buffer) # sensors

(***************************************************************************)
(* C4: on every board profile and for every content of the EC, after a     *)
(* pass all of whose hardware operations succeeded each assigned sensor's  *)
(* cached_value is the big-endian number of the size bytes at index ..     *)
(* index+size-1 of the sensor's own bank.                                  *)
(***************************************************************************)
OwnBankByte(si, j) == EcByte(ecPat, si.bank, si.index + j)

ExpectedRaw(si) ==
    IF si.size = 1 THEN <<0, OwnBankByte(si, 0)>>
    ELSE IF si.size = 2 THEN <<0, 256 * OwnBankByte(si, 0) + OwnBankByte(si, 1)>>
    ELSE <<256 * OwnBankByte(si, 0) + OwnBankByte(si, 1),
           256 * OwnBankByte(si, 2) + OwnBankByte(si, 3)>>

CleanPass == call.fn = "read" /\ trace # <<>> /\ Failed(trace) = {}

C4_OwnBankBytes ==
    CleanPass =>
        /\ ret = 0
        /\ \A i \in 1 .. Len(sensors) :
             sensors[i].cached_value = ExpectedRaw(SensorInfo(sensors[i].info_index))

\* a clean pass over both banks that started with bank 1 selected and that
\* decoded a two-byte sensor of bank 0 and a sensor of bank 1
C4_Witness ==
    /\ CleanPass
    /\ banks = <<0, 1>>
    /\ trace[2].value = 1
    /\ \E i, j \in 1 .. Len(sensors) :
         /\ SensorInfo(sensors[i].info_index).size = 2
         /\ SensorInfo(sensors[i].info_index).bank = 0
         /\ SensorInfo(sensors[j].info_index).bank = 1
         /\ sensors[i].cached_value # <<0, 0>>
         /\ sensors[j].cached_value # <<0, 0>>

(***************************************************************************)
(* C5, as written: a value query during whose pass the read of a data      *)
(* register failed returns an error.                                       *)
(***************************************************************************)
C5_DataReadFailureReported ==
    (call.fn = "read" /\ FailedAt(trace, {"data"}) # {}) => ret # 0

(***************************************************************************)
(* C6: a value query whose pass fails in the restore of the bank found at  *)
(* entry, and in nothing before it, returns -EIO without a value and       *)
(* leaves every cached_value and last_updated as they were.                *)
(***************************************************************************)
OnlyRestoreFailed(tr) ==
    /\ FailedAt(tr, {"restore"}) # {}
    /\ Failed(tr) \subseteq FailedAt(tr, {"restore", "release"})

C6_RestoreFailureStep ==
    (call'.fn = "read" /\ OnlyRestoreFailed(trace')) =>
        /\ ret' = -EIO
        /\ val' = <<>>
        /\ sensors' = sensors
        /\ last_updated' = last_updated

C6_RestoreFailureReported == [][C6_RestoreFailureStep]_vars

\* the restore failed after the buffer took bytes the cache does not hold
C6_Witness ==
    /\ call.fn = "read"
    /\ OnlyRestoreFailed(trace)
    /\ FailedAt(trace, {"data"}) = {}
    /\ update_sensor_values(sensors, read_buffer) # sensors

(***************************************************************************)
(* C7: a value query whose pass fails to take the AML mutex issues no      *)
(* other operation (no EC read, no EC write, no release), returns -EIO     *)
(* without a value and changes neither the cache, the buffer, last_updated *)
(* nor the bank selector.                                                  *)
(***************************************************************************)
AcquireFailed(tr) == tr # <<>> /\ tr[1].site = "acquire" /\ ~tr[1].ok

C7_AcquireFailureStep ==
    (call'.fn = "read" /\ AcquireFailed(trace')) =>
        /\ Len(trace') = 1
        /\ ret' = -EIO
        /\ val' = <<>>
        /\ UNCHANGED << sensors, read_buffer, last_updated, ecBank >>

C7_AcquireFailureNoAccess == [][C7_AcquireFailureStep]_vars

\* the mutex was not taken while the cache held values of an earlier pass
C7_Witness ==
    /\ call.fn = "read"
    /\ AcquireFailed(trace)
    /\ \E i \in 1 .. Len(sensors) : sensors[i].cached_value # <<0, 0>>

(***************************************************************************)
(* C8: on every board profile a value query for (type, n) uses the n-th    *)
(* sensor of the type in catalog order when the board has more than n      *)
(* sensors of the type, and otherwise returns -ENOENT with no hardware     *)
(* operation and no change of cache, buffer, last_updated or selector;     *)
(* is_visible grants S_IRUGO for (type, n) exactly in the first case.      *)
(***************************************************************************)
OfType(type) == {b \in board_sensors : SensorInfo(b).type = type}

KindCount(type) == Cardinality(OfType(type))

\* the position among the board's sensors of the n-th one of the type
NthOfKind(type, n) ==
    LET b == CHOOSE x \in OfType(type) :
                 Cardinality({y \in OfType(type) : y < x}) = n
    IN  Cardinality({y \in board_sensors : y < b})

C8_ReadResolves ==
    call.fn = "read" =>
        IF call.channel < KindCount(call.type)
        THEN /\ call.sidx = NthOfKind(call.type, call.channel)
             /\ ret # -ENOENT
             /\ ret = 0 => call.raw = sensors[call.sidx + 1].cached_value
        ELSE /\ ret = -ENOENT
             /\ val = <<>>
             /\ trace = <<>>

C8_VisibleMatches ==
    call.fn = "is_visible" =>
        ((ret = S_IRUGO) <=> (call.channel < KindCount(call.type)))

C8_NoSuchSensorStep ==
    (call'.fn = "read" /\ ret' = -ENOENT) =>
        UNCHANGED << sensors, read_buffer, last_updated, ecBank >>

C8_LookupByKindAndChannel ==
    /\ [](C8_ReadResolves /\ C8_VisibleMatches)
    /\ [][C8_NoSuchSensorStep]_vars

\* the second sensor of a type, found past sensors of other types
C8_Witness ==
    /\ call.fn = "read"
    /\ call.channel = 1
    /\ call.sidx > 1
    /\ ret = 0

(***************************************************************************)
(* C9, as written: a label query for a (type, n) the board does not have   *)
(* returns an error and uses an index inside the assigned-sensor array.    *)
(***************************************************************************)
C9_LabelLookupFailure ==
    (call.fn = "read_string" /\ call.channel >= KindCount(call.type)) =>
        /\ ret # 0
        /\ call.sidx \in 0 .. Len(sensors) - 1

(***************************************************************************)
(* C10, as written: for raw values of 1, 2 and 4 bytes the value returned  *)
(* is exactly raw * 1000 for temp, curr and in, and exactly raw for fan.   *)
(***************************************************************************)
\* u * k without a width, the high limb unbounded
ExactMul(u, k) == <<u[1] * k + (u[2] * k) \div Limb, (u[2] * k) % Limb>>

C10_ExactScaling ==
    call.fn = "scale" =>
        val = IF call.type \in {"temp", "curr", "in"}
              THEN ExactMul(call.raw, 1000)
              ELSE call.raw

(***************************************************************************)
(* C11, as written: in a pass all of whose hardware operations succeed     *)
(* each entry of registers is read exactly once, on every board profile.   *)
(***************************************************************************)
\* the reads of data register ireg in a trace
DataReads(tr, ireg) == {i \in 1 .. Len(tr) : tr[i].site = "data" /\ tr[i].ireg = ireg}

C11_EachRegisterReadOnce ==
    CleanPass =>
        \A ireg \in 1 .. Len(registers) : Cardinality(DataReads(trace, ireg)) = 1

(***************************************************************************)
(* C11: in a pass all of whose hardware operations succeed each entry of   *)
(* registers is read once for every bank of the board that is not above    *)
(* the entry's own bank, the last of these reads with its own bank         *)
(* selected; on a board whose sensors are all in one bank that is exactly  *)
(* once.                                                                   *)
(***************************************************************************)
BoardBanks == {SensorInfo(b).bank : b \in board_sensors}

BanksUpTo(bank) == {b \in BoardBanks : b <= bank}

LastOf(S) == CHOOSE i \in S : \A j \in S : j <= i

C11_ReadOncePerBankBelow ==
    CleanPass =>
        \A ireg \in 1 .. Len(registers) :
            /\ Cardinality(DataReads(trace, ireg))
                   = Cardinality(BanksUpTo(register_bank(registers[ireg])))
            /\ trace[LastOf(DataReads(trace, ireg))].sel
                   = register_bank(registers[ireg])
            /\ Cardinality(BoardBanks) = 1
                   => Cardinality(DataReads(trace, ireg)) = 1

\* a clean pass over both banks that read a register of bank 1 twice
C11_Witness ==
    /\ CleanPass
    /\ banks = <<0, 1>>
    /\ \E ireg \in 1 .. Len(registers) :
         /\ register_bank(registers[ireg]) = 1
         /\ Cardinality(DataReads(trace, ireg)) = 2

(***************************************************************************)
(* C12: a pass that got past the switch to bank 0, whether or not a bank   *)
(* switch cut its loop short, attempts exactly one restore: a write of the *)
(* bank found at entry to ASUS_EC_BANK_REGISTER, issued last before the    *)
(* release; when that write succeeds the selector at the release, and      *)
(* after the query, is the one found when the mutex was taken.             *)
(***************************************************************************)
SitesOf(tr, sites) == {i \in 1 .. Len(tr) : tr[i].site \in sites}

PastSwitch0(tr) ==
    /\ Len(tr) >= 2
    /\ tr[1].ok
    /\ tr[2].site = "sel_read" /\ tr[2].ok
    /\ FailedAt(tr, {"switch0"}) = {}

C12_RestoreStep ==
    (call'.fn = "read" /\ PastSwitch0(trace')) =>
        /\ SitesOf(trace', {"restore"}) = {Len(trace') - 1}
        /\ trace'[Len(trace') - 1].op = "write"
        /\ trace'[Len(trace') - 1].addr = ASUS_EC_BANK_REGISTER
        /\ trace'[Len(trace') - 1].value = ecBank
        /\ trace'[Len(trace')].site = "release"
        /\ trace'[Len(trace') - 1].ok =>
               /\ trace'[Len(trace')].sel = ecBank
               /\ ecBank' = ecBank

C12_RestoreOnceAndBack == [][C12_RestoreStep]_vars

\* a pass entered with bank 1 selected whose loop a failed switch cut short
\* and whose restore put bank 1 back
C12_Witness ==
    /\ call.fn = "read"
    /\ PastSwitch0(trace)
    /\ SitesOf(trace, {"switch0"}) # {}
    /\ FailedAt(trace, {"loop_switch"}) # {}
    /\ trace[Len(trace) - 1].value = 1
    /\ ecBank = 1

(***************************************************************************)
(* C13: a value query that took the AML mutex releases it exactly once, as *)
(* its last operation, whatever the block read returned; and it returns    *)
(* what it would have returned, and caches what it would have cached, had  *)
(* the release not failed.                                                 *)
(***************************************************************************)
Acquired(tr) == tr # <<>> /\ tr[1].site = "acquire" /\ tr[1].ok

\* the same query on the state before it, the faults being those of F
Replay(sidx, F) ==
    get_cached_value_or_update(
        sidx,
        [sensors |-> sensors, registers |-> registers, banks |-> banks,
         last_updated |-> last_updated],
        jiffies,
        [sel |-> ecBank, pat |-> ecPat, buf |-> read_buffer, n |-> 0, tr |-> <<>>],
        F)

C13_ReleaseStep ==
    (call'.fn = "read" /\ Acquired(trace')) =>
        /\ SitesOf(trace', {"release"}) = {Len(trace')}
        /\ SitesOf(trace', {"acquire"}) = {1}
        /\ ret' = Replay(call'.sidx, Failed(trace') \ {Len(trace')}).ret
        /\ sensors' = Replay(call'.sidx, Failed(trace') \ {Len(trace')}).sensors

C13_ReleasedOnce == [][C13_ReleaseStep]_vars

\* the release failed after a pass that succeeded
C13_Witness ==
    /\ call.fn = "read"
    /\ Acquired(trace)
    /\ FailedAt(trace, {"release"}) # {}
    /\ ret = 0
    /\ val # <<>>

(***************************************************************************)
(* C14, as written: no value query succeeds on a cache that no pass has    *)
(* filled, at whatever value of jiffies the first query arrives.           *)
(***************************************************************************)
\* the cache and the buffer are as configure_sensor_setup() left them: the
\* bytes of the EC are not all zero, so no pass has decoded into this cache
NeverRefreshed ==
    /\ read_buffer = Zeros(Len(registers))
    /\ \A i \in 1 .. Len(sensors) : sensors[i].cached_value = <<0, 0>>

C14_CreatedStale == (ResolvedRead /\ ret = 0) => ~NeverRefreshed

(***************************************************************************)
(* C15, as written: no write of a pass to ASUS_EC_BANK_REGISTER, be it of  *)
(* the switch to bank 0, of a switch of the loop or of the restore,        *)
(* carries the bank that is selected when it is issued.                    *)
(***************************************************************************)
Writes(tr) == {i \in 1 .. Len(tr) : tr[i].op = "write"}

C15_NoRedundantSelectorWrite ==
    call.fn = "read" => \A i \in Writes(trace) : trace[i].value # trace[i].sel

(***************************************************************************)
(* C15: a pass writes nothing but ASUS_EC_BANK_REGISTER; the write of the  *)
(* switch to bank 0 and the writes of the loop's switches carry a bank     *)
(* other than the selected one; the restore writes the bank found at entry *)
(* whether or not it is the selected one, so that a pass without failures  *)
(* over banks = <<0>> entered with bank 0 selected issues one write, of 0. *)
(***************************************************************************)
C15_SelectorWrites ==
    call.fn = "read" =>
        /\ \A i \in Writes(trace) :
             /\ trace[i].addr = ASUS_EC_BANK_REGISTER
             /\ trace[i].site \in {"switch0", "loop_switch", "restore"}
             /\ trace[i].site = "switch0" => trace[i].value = 0
             /\ trace[i].site \in {"switch0", "loop_switch"}
                    => trace[i].value # trace[i].sel
             /\ trace[i].site = "restore" => trace[i].value = trace[2].value
        /\ (CleanPass /\ banks = <<0>> /\ trace[2].value = 0) =>
               /\ Writes(trace) = {Len(trace) - 1}
               /\ trace[Len(trace) - 1].site = "restore"
               /\ trace[Len(trace) - 1].value = trace[Len(trace) - 1].sel

\* bank 0 is written while bank 0 is selected, by the restore of a pass over
\* a board of bank 0 alone
C15_Witness ==
    /\ CleanPass
    /\ banks = <<0>>
    /\ trace[2].value = 0
    /\ \E i \in Writes(trace) : trace[i].value = 0 /\ trace[i].sel = 0

(***************************************************************************)
(* C16: within a pass the banks written by the loop's switches are banks   *)
(* of the board in strictly ascending order; the data reads are issued     *)
(* bank by bank in ascending order of the selected bank, and in the order  *)
(* of registers while one bank is selected; each reads the address of its  *)
(* register, and none reads a register of a bank lower than the selected   *)
(* one.                                                                    *)
(***************************************************************************)
C16_AscendingBanksPlanOrder ==
    call.fn = "read" =>
        /\ \A i \in SitesOf(trace, {"loop_switch"}) :
             /\ trace[i].value \in BoardBanks
             /\ \A j \in SitesOf(trace, {"loop_switch"}) :
                  i < j => trace[i].value < trace[j].value
        /\ \A i \in SitesOf(trace, {"data"}) :
             /\ trace[i].sel \in BoardBanks
             /\ trace[i].sel <= register_bank(registers[trace[i].ireg])
             /\ trace[i].addr = registers[trace[i].ireg] % 256
             /\ \A j \in SitesOf(trace, {"data"}) :
                  i < j =>
                      /\ trace[i].sel <= trace[j].sel
                      /\ trace[i].sel = trace[j].sel => trace[i].ireg < trace[j].ireg

\* a pass without failures that read registers under bank 0, switched to
\* bank 1 and read registers there, passing over those of bank 0
C16_Witness ==
    /\ CleanPass
    /\ SitesOf(trace, {"loop_switch"}) # {}
    /\ \E i, j \in SitesOf(trace, {"data"}) : trace[i].sel = 0 /\ trace[j].sel = 1
    /\ \E r \in 1 .. Len(registers) :
         /\ register_bank(registers[r]) = 0
         /\ \A j \in DataReads(trace, r) : trace[j].sel = 0

(***************************************************************************)
(* C17: for every subset of the catalog the plan built at setup has the    *)
(* assigned sensors in ascending catalog order, as many registers (and     *)
(* buffer bytes) as the sizes of the assigned sensors add up to, each      *)
(* sensor's registers at the position given by the sizes of the sensors    *)
(* before it and equal to (bank << 8) + index .. + size - 1, and banks     *)
(* equal to the banks of the registers, strictly ascending, at most        *)
(* ASUS_EC_MAX_BANK of them.                                               *)
(***************************************************************************)
RECURSIVE SumSizes(_)
SumSizes(S) ==
    IF S = {} THEN 0
    ELSE LET b == CHOOSE x \in S : TRUE
         IN  SensorInfo(b).size + SumSizes(S \ {b})

BitsBelow(b) == {c \in board_sensors : c < b}

C17_PlanWellFormed ==
    /\ Len(sensors) = Cardinality(board_sensors)
    /\ \A k \in 1 .. Len(sensors) :
         /\ sensors[k].info_index \in board_sensors
         /\ Cardinality(BitsBelow(sensors[k].info_index)) = k - 1
    /\ Len(registers) = SumSizes(board_sensors)
    /\ Len(read_buffer) = Len(registers)
    /\ \A b \in board_sensors :
         \A j \in 0 .. SensorInfo(b).size - 1 :
             registers[SumSizes(BitsBelow(b)) + j + 1]
                 = SensorInfo(b).bank * 256 + SensorInfo(b).index + j
    /\ {banks[i] : i \in 1 .. Len(banks)}
           = {register_bank(registers[r]) : r \in 1 .. Len(registers)}
    /\ \A i \in 1 .. Len(banks) - 1 : banks[i] < banks[i + 1]
    /\ Len(banks) <= ASUS_EC_MAX_BANK

\* a plan over both banks in which a two-byte sensor follows a one-byte one
\* and precedes a sensor of bank 1, put to use by a visibility query
C17_Witness ==
    /\ call.fn = "is_visible"
    /\ banks = <<0, 1>>
    /\ \E k \in 2 .. Len(sensors) - 1 :
         /\ SensorInfo(sensors[k].info_index).size = 2
         /\ SensorInfo(sensors[k - 1].info_index).size = 1
         /\ SensorInfo(sensors[k + 1].info_index).bank = 1

(***************************************************************************)
(* C18, as written: with callers running asus_ec_hwmon_read() at the same  *)
(* time, every step that changes read_buffer, a cached_value or            *)
(* last_updated is taken by the caller that holds the AML mutex.           *)
(***************************************************************************)
CacheMutated ==
    \/ read_buffer' # read_buffer
    \/ sensors' # sensors
    \/ last_updated' # last_updated

C18_MutationStep ==
    CacheMutated => \E t \in Threads : pc'[t] # pc[t] /\ mutex = t

C18_MutationsUnderMutex == [][C18_MutationStep]_vars

(***************************************************************************)
(* C19: decoding a buffer in which values that fit sensors of 1, 2 and 4   *)
(* bytes are laid out big-endian, one after the other, gives back each     *)
(* value, every sensor having taken exactly its size in bytes; a sensor of *)
(* another size decodes to 0 and still takes its size in bytes.            *)
(***************************************************************************)
RECURSIVE SumItemSizes(_)
SumItemSizes(items) ==
    IF items = <<>> THEN 0 ELSE Head(items).size + SumItemSizes(Tail(items))

C19_DecodeInvertsLayout ==
    call.fn = "decode" =>
        /\ Len(val) = Len(call.raw)
        /\ Len(call.buf) = SumItemSizes(call.raw)
        /\ \A i \in 1 .. Len(call.raw) :
             val[i] = IF call.raw[i].size \in Widths THEN call.raw[i].value
                      ELSE <<0, 0>>

\* a four-byte value with its top bit set followed by a two-byte value whose
\* two bytes differ, both given back
C19_Witness ==
    /\ call.fn = "decode"
    /\ Len(call.raw) = 2
    /\ call.raw[1].size = 4 /\ call.raw[1].value = <<65535, 256>>
    /\ call.raw[2].size = 2 /\ call.raw[2].value = <<0, 256>>
    /\ val = <<call.raw[1].value, call.raw[2].value>>

(***************************************************************************)
(* C20, as written: when no entry of asus_ec_dmi_table matches, setup      *)
(* returns an error and builds no plan, and known_boards is never indexed  *)
(* with a board outside 0 .. BOARD_MAX-1.                                  *)
(***************************************************************************)
C20_UnsupportedBoardStops ==
    call.fn = "setup" =>
        /\ call.indexed => call.board \in 0 .. BOARD_MAX - 1
        /\ call.dmi < 0 =>
               /\ ret # 0
               /\ ~call.indexed
               /\ sensors = <<>> /\ registers = <<>> /\ banks = <<>>

(***************************************************************************)
(* C21, as written: bank_compare() orders any two banks of 0 .. 255 as     *)
(* their unsigned values are ordered, and two banks sorted with it are in  *)
(* the ascending order that the test reg_bank < bank of the pass uses.     *)
(***************************************************************************)
C21_UnsignedBankOrder ==
    call.fn = "bank_compare" =>
        /\ (ret < 0) <=> (call.a < call.b)
        /\ (ret = 0) <=> (call.a = call.b)
        /\ (ret > 0) <=> (call.a > call.b)
        /\ ~RegSkipped(call.sorted[2], call.sorted[1])

(***************************************************************************)
(* C22, as written: scaling happens when a pass is decoded: after a        *)
(* successful refresh the cached_value of every temp, curr and in sensor   *)
(* is 1000 x its raw integer, and a query returns cached_value as stored.  *)
(***************************************************************************)
Scaled(type) == type \in {"temp", "curr", "in"}

CachedOf(sidx) == sensors[sidx + 1].cached_value

C22_ScaledWhenDecoded ==
    /\ CleanPass =>
          \A i \in 1 .. Len(sensors) :
              Scaled(SensorInfo(sensors[i].info_index).type) =>
                  sensors[i].cached_value =
                      ExactMul(ExpectedRaw(SensorInfo(sensors[i].info_index)), 1000)
    /\ (ResolvedRead /\ ret = 0) => val = CachedOf(call.sidx)

(***************************************************************************)
(* C22, amended: scaling happens when a value is queried: after a          *)
(* successful refresh the cached_value of every sensor, whatever its type, *)
(* is its raw decoded integer, and a successful query returns 1000 x the   *)
(* cached_value of a temp, curr or in sensor and the cached_value itself   *)
(* of a fan sensor.                                                        *)
(***************************************************************************)
C22_ScaledWhenQueried ==
    /\ CleanPass =>
          \A i \in 1 .. Len(sensors) :
              sensors[i].cached_value =
                  ExpectedRaw(SensorInfo(sensors[i].info_index))
    /\ (ResolvedRead /\ ret = 0) =>
          /\ call.raw = CachedOf(call.sidx)
          /\ val = IF Scaled(call.type)
                   THEN ExactMul(CachedOf(call.sidx), 1000)
                   ELSE CachedOf(call.sidx)

\* a refresh decoded a non-zero raw value of a scaled sensor, which the cache
\* holds as decoded and the query returned multiplied by 1000
C22_Witness ==
    /\ CleanPass
    /\ ResolvedRead
    /\ ret = 0
    /\ Scaled(call.type)
    /\ CachedOf(call.sidx) = ExpectedRaw(SensorInfo(sensors[call.sidx + 1].info_index))
    /\ CachedOf(call.sidx) # <<0, 0>>
    /\ val = ExactMul(CachedOf(call.sidx), 1000)
    /\ val # CachedOf(call.sidx)

=============================================================================
